---- MODULE Spec2Model ----
(***************************************************************************)
(* SPY forecast: the signal scorer and forecast composer of                *)
(* scripts/spy_forecaster.py and the prediction ledger of                  *)
(* scripts/prediction_tracker.py.                                          *)
(*                                                                         *)
(* Units.  Raw market prices (the Close column, the realized close) are    *)
(* integers in mills (1/1000 dollar).  Fields the code stores after        *)
(* round(x, 2) are integers in hundredths: prices in cents, percentages in *)
(* hundredths of a percent.  round() is modelled as round-half-to-even on  *)
(* the exact quotient; the inputs below never produce an exact tie, where  *)
(* binary floating point could differ.                                     *)
(* Time.  The wall clock counts ticks of TickHours hours.                  *)
(*                                                                         *)
(* Specifications.                                                         *)
(*   Spec            the life of the ledger: the forecaster and the three   *)
(*                   tracker commands run in any order as time passes       *)
(*   SpecResolve     one evaluate_predictions pass over a ledger of pending *)
(*                   predictions, with every realized close                 *)
(*   SpecScore       generate_signals applied to indicator frames           *)
(*   SpecConfidence  calculate_confidence applied to category scores        *)
(***************************************************************************)
EXTENDS Integers, Sequences, FiniteSets, TLC

VARIABLES
    clock,          \* datetime.now(), in ticks
    forecast_file,  \* contents of forecast_latest.json, or NoFile
    history_file,   \* contents of data/prediction_history.json, or NoFile
    lookups,        \* history: what ticker.history did for each prediction of the observed pass
    df,             \* the indicator frame handed to generate_signals (latest and previous bar)
    signals,        \* the category scores: generate_signals' result, calculate_confidence's input
    confidence      \* calculate_confidence's result, in hundredths of a percent

vars == <<clock, forecast_file, history_file, lookups, df, signals, confidence>>

ledgerVars == <<clock, forecast_file, history_file, lookups>>
scoreVars == <<df, signals, confidence>>

----------------------------------------------------------------------------
(* Bounds of the model *)

MaxClock == 3       \* last tick of the wall clock
TickHours == 12     \* hours per tick
MaxPredictions == 2 \* add_prediction is not taken beyond this many records
MaxSignal == 6      \* calculate_confidence is applied to scores in -MaxSignal..MaxSignal

\* An optional value (a JSON null, a Python None, a file that may not exist) is a
\* sequence of at most one element
None == <<>>
Some(x) == <<x>>
Value(o) == o[1]

NoFile == None
Null == None

----------------------------------------------------------------------------
(* Arithmetic helpers *)

Abs(x) == IF x < 0 THEN -x ELSE x

Min(a, b) == IF a < b THEN a ELSE b

\* floor(n / d) for d > 0 and any integer n
FloorDiv(n, d) == IF n >= 0 THEN n \div d ELSE -((-n + d - 1) \div d)

\* Python round(): the integer nearest to n / d (d > 0), ties to the even one
RoundDiv(n, d) ==
    LET q == FloorDiv(n, d)
        r == n - q * d
    IN  IF 2 * r < d THEN q
        ELSE IF 2 * r > d THEN q + 1
        ELSE IF q % 2 = 0 THEN q ELSE q + 1

----------------------------------------------------------------------------
(* spy_forecaster.py: generate_signals *)

Categories == {"trend", "momentum", "volatility", "volume"}

\* TrendSignal with the first cascade written as four independent ifs
TrendSignal_every_branch(latest, prev) ==
    LET r1 == (IF latest.Close > latest.SMA_20 /\ latest.SMA_20 > latest.SMA_50 THEN 2 ELSE 0)
            + (IF latest.Close > latest.SMA_20 THEN 1 ELSE 0)
            + (IF latest.Close < latest.SMA_20 /\ latest.SMA_20 < latest.SMA_50 THEN -2 ELSE 0)
            + (IF latest.Close < latest.SMA_20 THEN -1 ELSE 0)
        r2 == IF latest.MACD > latest.MACD_signal THEN 1 ELSE -1
        r3 == IF latest.ADX > 25
              THEN (IF latest.Close > prev.Close THEN 1 ELSE -1)
              ELSE 0
    IN  r1 + r2 + r3

TrendSignal(latest, prev) ==
    LET r1 == IF latest.Close > latest.SMA_20 /\ latest.SMA_20 > latest.SMA_50 THEN 2
              ELSE IF latest.Close > latest.SMA_20 THEN 1
              ELSE IF latest.Close < latest.SMA_20 /\ latest.SMA_20 < latest.SMA_50 THEN -2
              ELSE IF latest.Close < latest.SMA_20 THEN -1
              ELSE 0
        r2 == IF latest.MACD > latest.MACD_signal THEN 1 ELSE -1
        r3 == IF latest.ADX > 25
              THEN (IF latest.Close > prev.Close THEN 1 ELSE -1)
              ELSE 0
    IN  r1 + r2 + r3

MomentumSignal(latest) ==
    LET r1 == IF latest.RSI > 70 THEN -2
              ELSE IF latest.RSI > 60 THEN 1
              ELSE IF latest.RSI < 30 THEN 2
              ELSE IF latest.RSI < 40 THEN -1
              ELSE 0
        r2 == IF latest.Stoch > latest.Stoch_signal /\ latest.Stoch < 80 THEN 1
              ELSE IF latest.Stoch < latest.Stoch_signal /\ latest.Stoch > 20 THEN -1
              ELSE 0
        r3 == IF latest.ROC > 0 THEN 1 ELSE -1
    IN  r1 + r2 + r3

VolatilitySignal(latest) ==
    LET r1 == IF latest.Close > latest.BB_upper THEN -1
              ELSE IF latest.Close < latest.BB_lower THEN 1
              ELSE IF latest.Close > latest.BB_middle THEN 1
              ELSE -1
        r2 == IF latest.ATR > latest.ATR_mean20 THEN -1 ELSE 0
    IN  r1 + r2

VolumeSignal(latest, prev) ==
    LET r1 == IF latest.Volume > latest.Volume_SMA
              THEN (IF latest.Close > prev.Close THEN 2 ELSE -2)
              ELSE 0
        r2 == IF latest.MFI > 80 THEN -1
              ELSE IF latest.MFI < 20 THEN 1
              ELSE 0
        r3 == IF latest.obv_trend > 0 THEN 1 ELSE -1
    IN  r1 + r2 + r3

generate_signals(frame) ==
    [trend      |-> TrendSignal(frame.latest, frame.prev),
     momentum   |-> MomentumSignal(frame.latest),
     volatility |-> VolatilitySignal(frame.latest),
     volume     |-> VolumeSignal(frame.latest, frame.prev)]

----------------------------------------------------------------------------
(* spy_forecaster.py: calculate_confidence and the direction of generate_forecast *)

total_signal(s) == s.trend + s.momentum + s.volatility + s.volume

max_possible == 20

\* calculate_confidence without the min(confidence, 100)
calculate_confidence_uncapped(s) ==
    RoundDiv(Abs(total_signal(s)) * 100 * 100, max_possible)

\* abs(total_signal) / max_possible * 100, capped at 100, rounded to 2 decimals
calculate_confidence(s) ==
    LET num == Abs(total_signal(s)) * 100 * 100   \* hundredths of a percent, over max_possible
    IN  RoundDiv(Min(num, 100 * 100 * max_possible), max_possible)

Direction(total) ==
    IF total > 0 THEN "UP" ELSE IF total < 0 THEN "DOWN" ELSE "NEUTRAL"

----------------------------------------------------------------------------
(* Market data: the frames yfinance and ta hand to generate_signals *)

\* A quiet bar: every comparison of generate_signals that can be a tie is a tie
BaseBar ==
    [Close |-> 100000, SMA_20 |-> 100000, SMA_50 |-> 100000,
     MACD |-> 0, MACD_signal |-> 0, ADX |-> 20,
     RSI |-> 50, Stoch |-> 50, Stoch_signal |-> 50, ROC |-> 0,
     BB_upper |-> 102000, BB_middle |-> 100000, BB_lower |-> 98000,
     ATR |-> 2, ATR_mean20 |-> 2,
     Volume |-> 2, Volume_SMA |-> 2, MFI |-> 50, obv_trend |-> 0]

Frame(latest, prevClose) == [latest |-> latest, prev |-> [BaseBar EXCEPT !.Close = prevClose]]

\* total_signal > 0
BullishFrame ==
    Frame([BaseBar EXCEPT !.Close = 100004, !.SMA_20 = 99000, !.SMA_50 = 98000,
                          !.MACD = 1, !.ADX = 30, !.RSI = 65, !.ROC = 1,
                          !.Volume = 3, !.obv_trend = 1], 99000)

\* total_signal < 0
BearishFrame ==
    Frame([BaseBar EXCEPT !.Close = 99996, !.SMA_20 = 101000, !.SMA_50 = 102000,
                          !.ADX = 30, !.RSI = 35, !.ATR = 3,
                          !.Volume = 3], 101000)

\* total_signal = 0
FlatFrame ==
    Frame([BaseBar EXCEPT !.Close = 100001, !.SMA_20 = 100001, !.MACD = 1], 100000)

MarketFrames == {BullishFrame, BearishFrame, FlatFrame}

\* The markets the scheduled forecaster meets in the ledger's life
LedgerFrames == {BullishFrame, BearishFrame}

\* Closes the realized-price lookup can return for the bar after a prediction at
\* 100.00: -1%, -0.1%, +0.05%, +0.1%, +0.104%, +1.5%
RealizedCloses == {99000, 99900, 100050, 100100, 100104, 101500}

\* The two of them the ledger's life is run with: -1% and +1.5%
LedgerCloses == {99000, 101500}

\* What ticker.history(...) does for one prediction: it raises, or it returns the
\* Close column of 0, 1 or 2 bars
LookupError == [raised |-> TRUE, Close |-> <<>>]
Returned(closes) == [raised |-> FALSE, Close |-> closes]

LookupResults(closes) ==
    {LookupError} \cup {Returned(<<>>), Returned(<<100000>>)}
                  \cup {Returned(<<100000, c>>) : c \in closes}

----------------------------------------------------------------------------
(* spy_forecaster.py: generate_forecast *)

\* datetime.now().strftime('%Y-%m-%d'): the day number of a tick
DateOf(t) == (t * TickHours) \div 24

\* The forecast dict, without 'time' and the rounded copies of six indicators in
\* 'indicators', which nothing reads back
Forecast(frame, now) ==
    LET s == generate_signals(frame)
        price_change == frame.latest.Close - frame.prev.Close      \* mills
    IN  [timestamp     |-> now,
         date          |-> DateOf(now),
         ticker        |-> "SPY",
         current_price |-> RoundDiv(frame.latest.Close, 10),
         price_change  |-> RoundDiv(price_change, 10),
         price_change_pct |-> RoundDiv(price_change * 100 * 100, frame.prev.Close),
         prediction    |-> [direction       |-> Direction(total_signal(s)),
                            confidence      |-> calculate_confidence(s),
                            signal_strength |-> total_signal(s)],
         signals       |-> s]

\* datetime.now() differs between two runs: the model runs the forecaster at most
\* once per tick, so a forecast is known by its timestamp
generate_forecast ==
    /\ IF forecast_file = NoFile THEN TRUE ELSE Value(forecast_file).timestamp < clock
    /\ \E frame \in LedgerFrames : forecast_file' = Some(Forecast(frame, clock))
    /\ UNCHANGED <<clock, history_file, lookups, scoreVars>>

----------------------------------------------------------------------------
(* prediction_tracker.py: load_history, add_prediction *)

EmptyDict == [k \in {} |-> Null]

load_history(file) ==
    IF file = NoFile THEN [predictions |-> <<>>, statistics |-> EmptyDict] ELSE Value(file)

\* NewPrediction numbering from the index of the new element
NewPrediction_zero_based(history, forecast) ==
    [id                  |-> Len(history.predictions),
     timestamp           |-> forecast.timestamp,
     date                |-> forecast.date,
     ticker              |-> forecast.ticker,
     price_at_prediction |-> forecast.current_price,
     predicted_direction |-> forecast.prediction.direction,
     confidence          |-> forecast.prediction.confidence,
     signal_strength     |-> forecast.prediction.signal_strength,
     signals             |-> forecast.signals,
     evaluated           |-> FALSE,
     actual_direction    |-> Null,
     actual_change_pct   |-> Null,
     correct             |-> Null]

NewPrediction(history, forecast) ==
    [id                  |-> Len(history.predictions) + 1,
     timestamp           |-> forecast.timestamp,
     date                |-> forecast.date,
     ticker              |-> forecast.ticker,
     price_at_prediction |-> forecast.current_price,
     predicted_direction |-> forecast.prediction.direction,
     confidence          |-> forecast.prediction.confidence,
     signal_strength     |-> forecast.prediction.signal_strength,
     signals             |-> forecast.signals,
     evaluated           |-> FALSE,
     actual_direction    |-> Null,
     actual_change_pct   |-> Null,
     correct             |-> Null]

\* history['predictions'].append(prediction)
Record(history, forecast) ==
    [history EXCEPT !.predictions = Append(@, NewPrediction(history, forecast))]

add_prediction ==
    /\ forecast_file # NoFile          \* load_forecast raises FileNotFoundError otherwise
    /\ Len(load_history(history_file).predictions) < MaxPredictions
    /\ history_file' = Some(Record(load_history(history_file), Value(forecast_file)))
    /\ UNCHANGED <<clock, forecast_file, lookups, scoreVars>>

----------------------------------------------------------------------------
(* prediction_tracker.py: evaluate_predictions *)

\* (datetime.now() - pred_date).total_seconds() / 3600
hours_passed(pred, now) == (now - pred.timestamp) * TickHours

\* NeedsLookup without the "if pred['evaluated']: continue"
NeedsLookup_again(pred, now) == ~(hours_passed(pred, now) < 24)

\* NeedsLookup without the "if hours_passed < 24: continue"
NeedsLookup_at_once(pred, now) == ~pred.evaluated

\* The loop's two guards before the lookup: not yet evaluated, and 24 hours old
NeedsLookup(pred, now) ==
    /\ ~pred.evaluated
    /\ ~(hours_passed(pred, now) < 24)

\* ActualDirection with >= 0.1 and <= -0.1
ActualDirection_inclusive(price_start, price_end) ==
    LET diff == price_end - 10 * price_start
    IN  IF 100 * diff >= price_start THEN "UP"
        ELSE IF 100 * diff <= -price_start THEN "DOWN"
        ELSE "NEUTRAL"

\* actual_change_pct = (price_end - price_start) / price_start * 100, compared with
\* 0.1 and -0.1; price_start in cents, price_end in mills
ActualDirection(price_start, price_end) ==
    LET diff == price_end - 10 * price_start     \* mills
    IN  IF 100 * diff > price_start THEN "UP"
        ELSE IF 100 * diff < -price_start THEN "DOWN"
        ELSE "NEUTRAL"

\* round(actual_change_pct, 2), in hundredths of a percent
RoundedChangePct(price_start, price_end) ==
    RoundDiv(1000 * (price_end - 10 * price_start), price_start)

\* The try block for one prediction; hist is what ticker.history did
EvaluateOne(pred, hist) ==
    IF hist.raised THEN pred                   \* except Exception: continue
    ELSE IF Len(hist.Close) < 2 THEN pred      \* not enough data yet
    ELSE LET price_start == pred.price_at_prediction
             price_end == hist.Close[Len(hist.Close)]
             actual_direction == ActualDirection(price_start, price_end)
         IN  ("price_after_24h" :> Some(RoundDiv(price_end, 10))) @@
             [pred EXCEPT !.evaluated = TRUE,
                          !.actual_direction = Some(actual_direction),
                          !.actual_change_pct = Some(RoundedChangePct(price_start, price_end)),
                          !.correct = Some(pred.predicted_direction = actual_direction)]

\* One outcome of the price lookup for every prediction the pass looks up
Lookups(predictions, now, closes) ==
    [{i \in 1..Len(predictions) : NeedsLookup(predictions[i], now)} -> LookupResults(closes)]

\* EvaluatePass with the try around the loop: a lookup that raises ends the pass
\* before anything is saved
EvaluatePass_aborting(predictions, now, hist) ==
    IF \E j \in DOMAIN hist : hist[j].raised
    THEN predictions
    ELSE [i \in 1..Len(predictions) |->
            IF NeedsLookup(predictions[i], now)
            THEN EvaluateOne(predictions[i], hist[i])
            ELSE predictions[i]]

EvaluatePass(predictions, now, hist) ==
    [i \in 1..Len(predictions) |->
        IF NeedsLookup(predictions[i], now)
        THEN EvaluateOne(predictions[i], hist[i])
        ELSE predictions[i]]

evaluate_with(hist) ==
    LET history == load_history(history_file)
        old == history.predictions
        new == EvaluatePass(old, clock, hist)
        resolved == {i \in 1..Len(old) : new[i].evaluated /\ ~old[i].evaluated}
        evaluated_count == Cardinality(resolved)
    IN  /\ history_file' = IF evaluated_count > 0
                           THEN Some([history EXCEPT !.predictions = new])
                           ELSE history_file
        /\ UNCHANGED <<clock, forecast_file, scoreVars>>

evaluate_predictions ==
    /\ \E hist \in Lookups(load_history(history_file).predictions, clock, LedgerCloses) :
            evaluate_with(hist)
    /\ UNCHANGED lookups

----------------------------------------------------------------------------
(* prediction_tracker.py: calculate_statistics, export_data *)

Directions == {"UP", "DOWN", "NEUTRAL"}

IsEvaluated(p) == p.evaluated
IsCorrect(p) == p.correct = Some(TRUE)

DirectionStats(evaluated, d) ==
    LET preds == SelectSeq(evaluated, LAMBDA p : p.predicted_direction = d)
        correct == Len(SelectSeq(preds, IsCorrect))
    IN  [total    |-> Len(preds),
         correct  |-> correct,
         accuracy |-> IF Len(preds) > 0 THEN RoundDiv(correct * 100 * 100, Len(preds)) ELSE 0]

\* calculate_statistics counting only the evaluated predictions as the total
calculate_statistics_evaluated_total(history, now) ==
    LET evaluated == SelectSeq(history.predictions, IsEvaluated)
        correct == Len(SelectSeq(evaluated, IsCorrect))
    IN  IF Len(evaluated) = 0
        THEN [total_predictions     |-> Len(evaluated),
              evaluated_predictions |-> 0,
              accuracy              |-> 0,
              correct               |-> 0,
              incorrect             |-> 0]
        ELSE [total_predictions     |-> Len(evaluated),
              evaluated_predictions |-> Len(evaluated),
              accuracy              |-> RoundDiv(correct * 100 * 100, Len(evaluated)),
              correct               |-> correct,
              incorrect             |-> Len(evaluated) - correct,
              by_direction          |-> [d \in Directions |-> DirectionStats(evaluated, d)],
              last_updated          |-> now]

calculate_statistics(history, now) ==
    LET evaluated == SelectSeq(history.predictions, IsEvaluated)
        correct == Len(SelectSeq(evaluated, IsCorrect))
    IN  IF Len(evaluated) = 0
        THEN [total_predictions     |-> Len(history.predictions),
              evaluated_predictions |-> 0,
              accuracy              |-> 0,
              correct               |-> 0,
              incorrect             |-> 0]
        ELSE [total_predictions     |-> Len(history.predictions),
              evaluated_predictions |-> Len(evaluated),
              accuracy              |-> RoundDiv(correct * 100 * 100, Len(evaluated)),
              correct               |-> correct,
              incorrect             |-> Len(evaluated) - correct,
              by_direction          |-> [d \in Directions |-> DirectionStats(evaluated, d)],
              last_updated          |-> now]

\* The export artefact predictions_data.json is written and never read back; it
\* holds stats and the last 30 predictions of the history saved here
export_data ==
    /\ LET history == load_history(history_file)
           stats == calculate_statistics(history, clock)
       IN  history_file' = Some([history EXCEPT !.statistics = stats])
    /\ UNCHANGED <<clock, forecast_file, lookups, scoreVars>>

----------------------------------------------------------------------------
(* The ledger and the forecaster as scheduled commands *)

Tick ==
    /\ clock < MaxClock
    /\ clock' = clock + 1
    /\ UNCHANGED <<forecast_file, history_file, lookups, scoreVars>>

Init ==
    /\ clock = 0
    /\ forecast_file = NoFile
    /\ history_file = NoFile
    /\ lookups = None
    /\ df = None
    /\ signals = None
    /\ confidence = None

Next ==
    \/ generate_forecast
    \/ add_prediction
    \/ evaluate_predictions
    \/ export_data
    \/ Tick

Spec == Init /\ [][Next]_vars

----------------------------------------------------------------------------
(* One evaluation pass over a ledger of pending predictions, with every     *)
(* realized close, and the lookups it made kept in the state                *)

RECURSIVE RecordAll(_, _)
RecordAll(history, forecasts) ==
    IF forecasts = <<>> THEN history
    ELSE RecordAll(Record(history, Head(forecasts)), Tail(forecasts))

\* The forecasts n runs of add_prediction read: the forecaster runs at most once
\* per tick, so the next forecast read is a later one or the same one again
ForecastRuns(n) ==
    {fs \in [1..n -> {Forecast(frame, t) : frame \in MarketFrames, t \in 0..MaxClock}] :
        \A i \in 1..(n - 1) : fs[i].timestamp < fs[i + 1].timestamp \/ fs[i] = fs[i + 1]}

InitResolve ==
    /\ \E n \in 1..MaxPredictions : \E fs \in ForecastRuns(n) :
          /\ history_file = Some(RecordAll(load_history(NoFile), fs))
          /\ forecast_file = Some(fs[n])
          /\ clock \in fs[n].timestamp..MaxClock
    /\ lookups = None
    /\ df = None
    /\ signals = None
    /\ confidence = None

resolve_pass ==
    /\ lookups = None
    /\ \E hist \in Lookups(load_history(history_file).predictions, clock, RealizedCloses) :
          /\ evaluate_with(hist)
          /\ lookups' = Some(hist)

NextResolve == resolve_pass

SpecResolve == InitResolve /\ [][NextResolve]_vars

----------------------------------------------------------------------------
(* generate_signals applied to indicator frames *)

WithFields(bar, fields) == [k \in DOMAIN bar |-> IF k \in DOMAIN fields THEN fields[k] ELSE bar[k]]

\* Frames that differ from the quiet bar in the indicators of one category, with
\* values on both sides of, and on, every threshold the category compares with
TrendFrames ==
    {Frame(WithFields(BaseBar, [Close |-> c, SMA_50 |-> s, MACD |-> m, ADX |-> a]), p) :
        c \in {99000, 100000, 101000}, s \in {99000, 100000, 101000},
        m \in {-1, 0, 1}, a \in {20, 25, 30}, p \in {99500, 100500}}

MomentumFrames ==
    {Frame(WithFields(BaseBar, [RSI |-> r, Stoch |-> k, Stoch_signal |-> d, ROC |-> c]), 100000) :
        r \in {25, 30, 35, 40, 50, 60, 65, 70, 75}, k \in {10, 20, 50, 80, 90},
        d \in {5, 50, 95}, c \in {-1, 0, 1}}

VolatilityFrames ==
    {Frame(WithFields(BaseBar, [Close |-> c, ATR |-> a]), 100000) :
        c \in {97000, 98000, 99000, 100000, 101000, 102000, 103000}, a \in {1, 2, 3}}

VolumeFrames ==
    {Frame(WithFields(BaseBar, [Volume |-> v, MFI |-> m, obv_trend |-> o]), p) :
        v \in {1, 2, 3}, m \in {10, 20, 50, 80, 90}, o \in {-1, 0, 1},
        p \in {99500, 100000, 100500}}

ScoredFrames ==
    TrendFrames \cup MomentumFrames \cup VolatilityFrames \cup VolumeFrames \cup MarketFrames

InitScore ==
    /\ df \in {Some(frame) : frame \in ScoredFrames}
    /\ signals = None
    /\ confidence = None
    /\ clock = 0
    /\ forecast_file = NoFile
    /\ history_file = NoFile
    /\ lookups = None

Score ==
    /\ signals = None
    /\ signals' = Some(generate_signals(Value(df)))
    /\ UNCHANGED <<df, confidence, ledgerVars>>

NextScore == Score

SpecScore == InitScore /\ [][NextScore]_vars

----------------------------------------------------------------------------
(* calculate_confidence applied to category scores; generate_signals itself  *)
(* keeps |total_signal| below max_possible, the wider scores here reach it   *)

ScoreSets == [Categories -> (-MaxSignal)..MaxSignal]

InitConfidence ==
    /\ signals \in {Some(s) : s \in ScoreSets}
    /\ df = None
    /\ confidence = None
    /\ clock = 0
    /\ forecast_file = NoFile
    /\ history_file = NoFile
    /\ lookups = None

Confidence ==
    /\ confidence = None
    /\ confidence' = Some(calculate_confidence(Value(signals)))
    /\ UNCHANGED <<df, signals, ledgerVars>>

NextConfidence == Confidence

SpecConfidence == InitConfidence /\ [][NextConfidence]_vars

----------------------------------------------------------------------------
(* Properties of the ledger *)

\* The predictions of the persisted ledger
Predictions == load_history(history_file).predictions
Statistics == load_history(history_file).statistics

Indices == 1..Len(Predictions)
EvaluatedIndices == {i \in Indices : Predictions[i].evaluated}

ResolutionFields == {"actual_direction", "actual_change_pct", "correct", "price_after_24h"}

\* The four counts of a statistics snapshot are those of a prediction sequence,
\* counted index by index
StatsConsistent(stats, predictions) ==
    LET evaluated == {i \in 1..Len(predictions) : predictions[i].evaluated}
        right == {i \in evaluated : predictions[i].correct = Some(TRUE)}
    IN  /\ {"total_predictions", "evaluated_predictions", "correct", "incorrect"}
               \subseteq DOMAIN stats
        /\ stats.total_predictions = Len(predictions)
        /\ stats.evaluated_predictions = Cardinality(evaluated)
        /\ stats.correct = Cardinality(right)
        /\ stats.incorrect = Cardinality(evaluated \ right)

\* C1, as claimed: in every persisted ledger state the stored statistics' total,
\* evaluated, correct and incorrect counts are those of the stored predictions.
C1_StatisticsAlwaysConsistent ==
    history_file # NoFile => StatsConsistent(Statistics, Predictions)

\* C1, amended: every export leaves a persisted ledger whose stored statistics'
\* total, evaluated, correct and incorrect counts are those of the stored
\* predictions; no other operation changes the stored statistics, so
\* add_prediction and evaluate_predictions save the ledger with the statistics
\* of the last export.
C1_ExportRefreshesStatistics ==
    [][(export_data => /\ history_file' # NoFile
                       /\ StatsConsistent(Statistics', Predictions'))
       /\ (Statistics' # Statistics => export_data)]_vars

C1_Witness ==
    /\ Len(Predictions) = 2
    /\ Cardinality(EvaluatedIndices) = 2
    /\ StatsConsistent(Statistics, Predictions)
    /\ Statistics.correct = 1
    /\ Statistics.incorrect = 1

\* C2: for every ledger state calculate_statistics returns accuracy and, for each
\* of UP, DOWN and NEUTRAL, a total and an accuracy; accuracy is 0 when nothing
\* is evaluated, and the total and accuracy of a direction with no evaluated
\* prediction are 0.
C2_StatisticsOfEveryLedger ==
    LET stats == calculate_statistics(load_history(history_file), clock)
        evaluated(d) == {i \in EvaluatedIndices : Predictions[i].predicted_direction = d}
    IN  /\ "accuracy" \in DOMAIN stats
        /\ EvaluatedIndices = {} => stats.accuracy = 0
        /\ "by_direction" \in DOMAIN stats
        /\ \A d \in Directions :
              /\ {"total", "accuracy"} \subseteq DOMAIN stats.by_direction[d]
              /\ evaluated(d) = {} => /\ stats.by_direction[d].total = 0
                                      /\ stats.by_direction[d].accuracy = 0

\* C3: the ledger holds one prediction per add_prediction run, with ids 1..N in
\* insertion order; a run appends one prediction with the next id and
\* evaluated = false, no other operation changes the number of predictions, and
\* no operation changes an id.
C3_IdsInInsertionOrder ==
    /\ [](\A i \in Indices : Predictions[i].id = i)
    /\ [][/\ add_prediction =>
              /\ Len(Predictions') = Len(Predictions) + 1
              /\ Predictions'[Len(Predictions')].id = Len(Predictions) + 1
              /\ Predictions'[Len(Predictions')].evaluated = FALSE
          /\ Len(Predictions') # Len(Predictions) => add_prediction
          /\ \A i \in Indices : Predictions'[i].id = Predictions[i].id]_vars

C3_Witness ==
    /\ Len(Predictions) = 2
    /\ Predictions[1].evaluated
    /\ ~Predictions[2].evaluated
    /\ "total_predictions" \in DOMAIN Statistics
    /\ Predictions[2].id = 2

\* C4: an evaluated prediction has its four resolution fields set, and no
\* operation changes its evaluated flag or any of the four.
C4_EvaluatedIsTerminal ==
    /\ [](\A i \in EvaluatedIndices :
            /\ ResolutionFields \subseteq DOMAIN Predictions[i]
            /\ \A f \in ResolutionFields : Predictions[i][f] # Null)
    /\ [][\A i \in EvaluatedIndices :
            /\ Predictions'[i].evaluated
            /\ \A f \in ResolutionFields : Predictions'[i][f] = Predictions[i][f]]_vars

\* Both predictions evaluated, the second one too young for the first pass that
\* could evaluate the first
C4_Witness ==
    /\ Cardinality(EvaluatedIndices) = 2
    /\ hours_passed(Predictions[1], Predictions[2].timestamp) > 0
    /\ hours_passed(Predictions[2], clock) < 48

\* C7: no forecast gives rise to more than one prediction (a forecast is known
\* by its timestamp).
C7_ForecastConsumedOnce ==
    \A i, j \in Indices : i # j => Predictions[i].timestamp # Predictions[j].timestamp

----------------------------------------------------------------------------
(* Properties of one evaluation pass (SpecResolve) *)

\* What the pass's lookup did for prediction i: nothing (no lookup), raised, or
\* the closes it returned
Looked(i) == lookups # None /\ i \in DOMAIN Value(lookups)
Raised(i) == Looked(i) /\ Value(lookups)[i].raised
Closes(i) == Value(lookups)[i].Close
EnoughCloses(i) == Looked(i) /\ ~Raised(i) /\ Len(Closes(i)) >= 2
RealizedClose(i) == Closes(i)[Len(Closes(i))]

\* C5: a pass evaluates a prediction only if it is at least 24 hours old and
\* its lookup returned at least 2 closes; a prediction less than 24 hours old,
\* and one whose lookup returned fewer than 2 closes, are left as they were.
C5_ResolvedOnlyWhenDue ==
    [][lookups' # lookups =>
        \A i \in Indices :
            /\ hours_passed(Predictions[i], clock) < 24 => Predictions'[i] = Predictions[i]
            /\ (Looked(i)' /\ ~Raised(i)' /\ Len(Closes(i)') < 2)
                  => Predictions'[i] = Predictions[i]
            /\ (Predictions'[i].evaluated /\ ~Predictions[i].evaluated)
                  => /\ hours_passed(Predictions[i], clock) >= 24
                     /\ EnoughCloses(i)']_vars

\* After a pass: one prediction too young and still pending, another one whose
\* lookup returned a single close and still pending
C5_Witness ==
    /\ lookups # None
    /\ \E i, j \in Indices :
          /\ hours_passed(Predictions[i], clock) < 24
          /\ ~Predictions[i].evaluated
          /\ Looked(j) /\ ~Raised(j) /\ Len(Closes(j)) = 1
          /\ ~Predictions[j].evaluated

\* C6, as claimed, on the stored fields: actual_change_pct is
\* (realized close - price_at_prediction) / price_at_prediction * 100, the actual
\* direction is UP iff it is > 0.1, DOWN iff it is < -0.1 and NEUTRAL otherwise,
\* and correct iff the predicted direction is the actual one.
C6_StoredChangeDecidesDirection ==
    \A i \in EvaluatedIndices :
        LET p == Predictions[i]
            pct == Value(p.actual_change_pct)          \* hundredths of a percent
            actual == Value(p.actual_direction)
        IN  /\ pct * p.price_at_prediction
                  = 1000 * (RealizedClose(i) - 10 * p.price_at_prediction)
            /\ actual = "UP" <=> pct > 10
            /\ actual = "DOWN" <=> pct < -10
            /\ actual = "NEUTRAL" <=> (pct >= -10 /\ pct <= 10)
            /\ Value(p.correct) <=> p.predicted_direction = actual

\* C6, amended: with c = (realized close - price_at_prediction) /
\* price_at_prediction * 100 computed from the unrounded realized close, the
\* actual direction is UP iff c > 0.1, DOWN iff c < -0.1 and NEUTRAL otherwise
\* (c exactly 0.1 or -0.1 is NEUTRAL; 100 -> 100.05 is NEUTRAL, 100 -> 101.5 is
\* UP, 100 -> 99.0 is DOWN), correct iff the predicted direction is the actual
\* one; the stored actual_change_pct is c rounded to 2 decimals and the stored
\* price_after_24h is the realized close rounded to 2 decimals.
C6_UnroundedChangeDecidesDirection ==
    \A i \in EvaluatedIndices :
        LET p == Predictions[i]
            start == p.price_at_prediction             \* cents
            diff == RealizedClose(i) - 10 * start      \* mills; c = 10 * diff / start
            pct == Value(p.actual_change_pct)
            actual == Value(p.actual_direction)
        IN  /\ actual \in Directions
            /\ actual = "UP" <=> 100 * diff > start
            /\ actual = "DOWN" <=> 100 * diff < -start
            /\ 2 * Abs(pct * start - 1000 * diff) <= start
            /\ 2 * Abs(10 * Value(p.price_after_24h) - RealizedClose(i)) <= 10
            /\ Value(p.correct) <=> p.predicted_direction = actual
            /\ start = 10000 =>
                  /\ RealizedClose(i) \in {99900, 100050, 100100} => actual = "NEUTRAL"
                  /\ RealizedClose(i) \in {100104, 101500} => actual = "UP"
                  /\ RealizedClose(i) = 99000 => actual = "DOWN"

\* A prediction resolved as UP whose stored change is 0.1
C6_Witness ==
    \E i \in EvaluatedIndices :
        /\ Value(Predictions[i].actual_direction) = "UP"
        /\ Value(Predictions[i].actual_change_pct) = 10
        /\ RealizedClose(i) = 100104

\* C8: in a pass, a prediction whose lookup raised is left as it was, and every
\* other pending prediction at least 24 hours old whose lookup returned at least
\* 2 closes is evaluated in the ledger the pass saves.
C8_LookupErrorIsIsolated ==
    [][lookups' # lookups =>
        \A i \in Indices :
            /\ Raised(i)' => Predictions'[i] = Predictions[i]
            /\ (/\ ~Predictions[i].evaluated
                /\ hours_passed(Predictions[i], clock) >= 24
                /\ ~Raised(i)')
                  => /\ Looked(i)'
                     /\ Len(Closes(i)') >= 2 => Predictions'[i].evaluated]_vars

\* After a pass: one lookup raised, its prediction is pending, another is evaluated
C8_Witness ==
    /\ lookups # None
    /\ \E i, j \in Indices :
          /\ Raised(i)
          /\ ~Predictions[i].evaluated
          /\ Predictions[j].evaluated

----------------------------------------------------------------------------
(* Properties of the scorer and the composer (SpecScore, SpecConfidence) *)

\* C9: each category score of generate_signals is within its bound, and a
\* cascade applies its first matching branch only: Close = SMA_20 adds nothing
\* from the first trend rule, RSI > 70 adds -2 and not the +1 of RSI > 60.
C9_CategoryScoresBounded ==
    signals # None =>
        LET s == Value(signals)
            latest == Value(df).latest
        IN  /\ s.trend \in -4..4
            /\ s.momentum \in -4..4
            /\ s.volatility \in -2..2
            /\ s.volume \in -4..4
            /\ latest.Close = latest.SMA_20 => s.trend \in -2..2
            /\ latest.RSI > 70 => s.momentum \in -4..0

\* Close = SMA_20 with the two other trend rules adding 1 each
C9_Witness ==
    /\ signals # None
    /\ Value(df).latest.Close = Value(df).latest.SMA_20
    /\ Value(signals).trend = 2

\* C10: confidence is min(100, |signal strength| / 20 * 100), within 0..100, and
\* 100 iff |signal strength| >= 20.
C10_ConfidenceSaturates ==
    confidence # None =>
        LET c == Value(confidence)                     \* hundredths of a percent
            strength == Abs(total_signal(Value(signals)))
        IN  /\ c \in 0..10000
            /\ c = 10000 <=> strength >= 20
            /\ strength < 20 => 20 * c = strength * 10000

C10_Witness ==
    /\ confidence = Some(10000)
    /\ Abs(total_signal(Value(signals))) > 20

====
